---- MODULE Spec2Model ----
(***************************************************************************)
(* Model of three parts of the vscode-docker extension:                    *)
(*   - AzureAccountTreeItem: loadMoreChildrenImpl and the background poll  *)
(*     refreshNodeWhenAzureExtensionIsInstalled (Spec, FairSpec);          *)
(*   - configureDotNetCore: genDockerFile and scaffoldNetCore              *)
(*     (NetCoreSpec);                                                      *)
(*   - dockerExtension: activate and the diagnostics of the documents      *)
(*     (LintSpec).                                                         *)
(* Strings are sequences of atoms (TLA+ strings); "$", "/", "\\", "\n"     *)
(* and "." are always atoms of their own where the code inspects them.     *)
(***************************************************************************)
EXTENDS Integers, Sequences, FiniteSets, TLC

VARIABLES
    installed,      \* extensions.getExtension('ms-vscode.azure-account') !== undefined
    run,            \* the runs of refreshNodeWhenAzureExtensionIsInstalled
    treeCall,       \* the last call of loadMoreChildrenImpl and what it returned
    call,           \* the inputs of the last genDockerFile / scaffoldNetCore call
    result,         \* what that call returned or threw
    lint            \* activate: the documents, their validations and diagnostics

vars == <<installed, run, treeCall, call, result, lint>>

(***************************************************************************)
(* Bounds of the model.                                                    *)
(***************************************************************************)
\* The number of poll delays that fit into maxTimeout (600 in the source).
PollsPerTimeout == 3
\* How many documents the editor has, and how many document events happen.
MaxDocs == 2
MaxEvents == 4
\* How many poll runs loadMoreChildrenImpl may start.
MaxRuns == 1
\* The longest list of tree items the parent implementation returns.
MaxItems == 2

(***************************************************************************)
(* AzureAccountTreeItem                                                    *)
(***************************************************************************)
\* delay(1000)
delayMs == 1000
\* const maxTimeout: number = 600000, scaled to PollsPerTimeout delays
maxTimeout == PollsPerTimeout * delayMs

Runs == 1..MaxRuns

CommandIds == {"extension.open", "azure-account.selectSubscriptions"}

TreeItemLists == UNION {[1..n -> CommandIds] : n \in 0..MaxItems}

IdleRun == [pc |-> "idle", timedout |-> FALSE, isExtensionInstalled |-> FALSE,
            timerPending |-> FALSE, timerLeft |-> 0, delayLeft |-> 0,
            checks |-> 0, lateChecks |-> 0, refreshes |-> 0, observed |-> FALSE]

NoTreeCall == [calls |-> 0, parentItems |-> <<>>, returned |-> <<>>,
               started |-> 0, pcAtReturn |-> "none", refreshesAtReturn |-> 0]

\* Before activate: no document is open, nothing is registered.
NoLint ==
    [activated |-> FALSE, open |-> {}, openAtActivation |-> {}, diagnostics |-> {},
     scheduled |-> [d \in 1..MaxDocs |-> 0], notified |-> [d \in 1..MaxDocs |-> 0],
     events |-> 0, last |-> [kind |-> "none", doc |-> 0, entryBefore |-> FALSE]]

NoCall == [kind |-> "none"]
NoResult == [kind |-> "none"]

\* treeItems.length === 1 && treeItems[0].commandId === 'extension.open'
ShouldPollMutant(treeItems) == Len(treeItems) >= 1 /\ treeItems[1] = "extension.open"
ShouldPoll(treeItems) == Len(treeItems) = 1 /\ treeItems[1] = "extension.open"

\* while (!timedout && !isExtensionInstalled)
LoopContinuesMutant(t, i) == ~i
LoopContinues(t, i) == ~t /\ ~i

\* if (isExtensionInstalled) { this.refresh(); }
ShouldRefreshMutant(t, i) == i \/ t
ShouldRefresh(t, i) == i

\* The timer callbacks the event loop still has to run: <<kind, run, left>>, left
\* being the milliseconds until the callback is due.
Pending ==
    {<<"timer", r, run[r].timerLeft>> : r \in {q \in Runs : run[q].timerPending}}
    \cup {<<"delay", r, run[r].delayLeft>> : r \in {q \in Runs : run[q].pc = "delay"}}

\* The event loop runs due callbacks in the order of their due times; which of
\* two callbacks due at the same time runs first is not determined.
MayRun(kind, r, left) ==
    /\ <<kind, r, left>> \in Pending
    /\ left <= 0
    /\ \A c \in Pending : c[3] >= left

\* Time passes by one delay, once the callbacks that are due have run.
Tick ==
    /\ Pending # {}
    /\ \A c \in Pending : c[3] > 0
    /\ run' = [r \in Runs |-> [run[r] EXCEPT
                !.timerLeft = IF run[r].timerPending THEN @ - delayMs ELSE @,
                !.delayLeft = IF run[r].pc = "delay" THEN @ - delayMs ELSE @]]
    /\ UNCHANGED <<installed, treeCall, call, result, lint>>

\* The user installs or removes the Azure Account extension.
Install ==
    /\ ~installed
    /\ installed' = TRUE
    /\ UNCHANGED <<run, treeCall, call, result, lint>>

Uninstall ==
    /\ installed
    /\ installed' = FALSE
    /\ UNCHANGED <<run, treeCall, call, result, lint>>

\* refreshNodeWhenAzureExtensionIsInstalled up to its first await.
StartedRun ==
    [IdleRun EXCEPT !.pc = "delay", !.timerPending = TRUE,
                    !.timerLeft = maxTimeout, !.delayLeft = delayMs]

\* loadMoreChildrenImpl: the parent's items are the input.
LoadMoreChildren(treeItems) ==
    LET start == ShouldPoll(treeItems)
        free == {r \in Runs : run[r].pc = "idle"}
        r == IF free = {} THEN 0 ELSE CHOOSE q \in free : \A p \in free : q <= p
        run2 == IF start THEN [run EXCEPT ![r] = StartedRun] ELSE run
    IN  /\ start => free # {}
        /\ run' = run2
        /\ treeCall' = [calls |-> 1, parentItems |-> treeItems, returned |-> treeItems,
                        started |-> IF start THEN r ELSE 0,
                        pcAtReturn |-> IF start THEN run2[r].pc ELSE "none",
                        refreshesAtReturn |-> IF start THEN run2[r].refreshes ELSE 0]
        /\ UNCHANGED <<installed, call, result, lint>>

\* setTimeout(() => { timedout = true; }, maxTimeout)
TimerFire(r) ==
    /\ MayRun("timer", r, run[r].timerLeft)
    /\ run' = [run EXCEPT ![r].timedout = TRUE, ![r].timerPending = FALSE,
                          ![r].timerLeft = 0]
    /\ UNCHANGED <<installed, treeCall, call, result, lint>>

\* await delay(1000) completes: the installation check, the loop condition and,
\* when the loop exits, the refresh.
DelayDone(r) ==
    LET t == run[r].timedout
        i == installed
        again == LoopContinues(t, i)
    IN  /\ MayRun("delay", r, run[r].delayLeft)
        /\ run' = [run EXCEPT
                ![r].isExtensionInstalled = i,
                ![r].observed = @ \/ i,
                ![r].checks = @ + 1,
                ![r].lateChecks = IF t THEN @ + 1 ELSE @,
                ![r].pc = IF again THEN "delay" ELSE "done",
                ![r].delayLeft = IF again THEN delayMs ELSE 0,
                ![r].refreshes = IF ~again /\ ShouldRefresh(t, i) THEN @ + 1 ELSE @]
        /\ UNCHANGED <<installed, treeCall, call, result, lint>>

Init ==
    /\ installed = FALSE
    /\ run = [r \in Runs |-> IdleRun]
    /\ treeCall = NoTreeCall
    /\ call = NoCall
    /\ result = NoResult
    /\ lint = NoLint

Next ==
    \/ Tick
    \/ Install
    \/ Uninstall
    \/ \E treeItems \in TreeItemLists : LoadMoreChildren(treeItems)
    \/ \E r \in Runs : TimerFire(r)
    \/ \E r \in Runs : DelayDone(r)

Spec == Init /\ [][Next]_vars

\* The timer and the delays eventually fire.
FairSpec ==
    /\ Spec
    /\ WF_vars(Tick)
    /\ \A r \in Runs : WF_vars(TimerFire(r)) /\ WF_vars(DelayDone(r))

(***************************************************************************)
(* Strings: String.prototype.replace and the regular expressions used by   *)
(* configureDotNetCore                                                     *)
(***************************************************************************)
Digits == {"0", "1", "2", "3", "4", "5", "6", "7", "8", "9"}

\* The atoms that consist of the characters a-z and _ only; every other atom
\* holds at least one character outside [a-z_].
LowerWords == {"base_image_name", "expose_statements", "sdk_image_name",
               "container_project_directory", "project_file_name",
               "assembly_name", "copy_project_commands",
               "app", "web", "src", "out", "w", "x"}

\* s.indexOf(pat): the first position of pat in s, 0 when there is none.
IndexOf(s, pat) ==
    LET hits == {i \in 1..(Len(s) - Len(pat) + 1) : SubSeq(s, i, i + Len(pat) - 1) = pat}
    IN  IF hits = {} THEN 0 ELSE CHOOSE i \in hits : \A j \in hits : i <= j

\* The replacement patterns of String.prototype.replace: $$ is a dollar sign and
\* $& the matched text (the patterns of this file have no numbered groups, and
\* the strings of the model hold no backquote or apostrophe).
RECURSIVE Expand(_, _)
Expand(rep, matched) ==
    LET hits == {i \in 1..(Len(rep) - 1) : rep[i] = "$" /\ rep[i + 1] \in {"$", "&"}}
        i == CHOOSE h \in hits : \A g \in hits : h <= g
    IN  IF hits = {} THEN rep
        ELSE SubSeq(rep, 1, i - 1)
             \o (IF rep[i + 1] = "$" THEN <<"$">> ELSE matched)
             \o Expand(SubSeq(rep, i + 2, Len(rep)), matched)

\* s.replace(pat, rep) for a string pat, or a pattern without the g flag: the
\* first occurrence only.
ReplaceFirst(s, pat, rep) ==
    LET i == IndexOf(s, pat)
    IN  IF i = 0 THEN s
        ELSE SubSeq(s, 1, i - 1) \o Expand(rep, pat) \o SubSeq(s, i + Len(pat), Len(s))

\* s.replace(/pat/g, rep) for a pattern that matches the literal text pat.
RECURSIVE ReplaceAll(_, _, _)
ReplaceAll(s, pat, rep) ==
    LET i == IndexOf(s, pat)
    IN  IF i = 0 THEN s
        ELSE SubSeq(s, 1, i - 1) \o Expand(rep, pat)
             \o ReplaceAll(SubSeq(s, i + Len(pat), Len(s)), pat, rep)

\* /(\$[a-z_]+\$)/: the first match in s, <<>> when there is none.
UnreplacedTokenMatch(s) ==
    LET ends(i) == {j \in (i + 2)..Len(s) :
                        /\ s[j] = "$"
                        /\ \A k \in (i + 1)..(j - 1) : s[k] \in LowerWords}
        starts == {i \in 1..Len(s) : s[i] = "$" /\ ends(i) # {}}
        i0 == CHOOSE i \in starts : \A j \in starts : i <= j
        j0 == CHOOSE j \in ends(i0) : \A k \in ends(i0) : j <= k
    IN  IF starts = {} THEN <<>> ELSE SubSeq(s, i0, j0)

\* extractRegExGroups(input, regex, defaults) for a regex with one group: the
\* group of the match, the default when the regex does not match.
extractRegExGroups(group, matches, default) == IF matches THEN group ELSE default

(***************************************************************************)
(* semver: versions of digits and dots, which is all genDockerFile passes  *)
(***************************************************************************)
\* s.split(sep)
RECURSIVE SplitOn(_, _)
SplitOn(s, sep) ==
    LET i == IndexOf(s, <<sep>>)
    IN  IF i = 0 THEN <<s>>
        ELSE <<SubSeq(s, 1, i - 1)>> \o SplitOn(SubSeq(s, i + 1, Len(s)), sep)

DigitValue(d) ==
    CASE d = "0" -> 0 [] d = "1" -> 1 [] d = "2" -> 2 [] d = "3" -> 3 [] d = "4" -> 4
      [] d = "5" -> 5 [] d = "6" -> 6 [] d = "7" -> 7 [] d = "8" -> 8 [] d = "9" -> 9

DigitOf(n) ==
    CASE n = 0 -> "0" [] n = 1 -> "1" [] n = 2 -> "2" [] n = 3 -> "3" [] n = 4 -> "4"
      [] n = 5 -> "5" [] n = 6 -> "6" [] n = 7 -> "7" [] n = 8 -> "8" [] n = 9 -> "9"

\* Number(part) for a string of digits
RECURSIVE ToNumber(_)
ToNumber(part) ==
    IF part = <<>> THEN 0
    ELSE 10 * ToNumber(SubSeq(part, 1, Len(part) - 1)) + DigitValue(part[Len(part)])

\* n.toString() for n >= 0
RECURSIVE NumberToString(_)
NumberToString(n) ==
    IF n < 10 THEN <<DigitOf(n)>> ELSE NumberToString(n \div 10) \o <<DigitOf(n % 10)>>

\* semver's numeric identifier: 0|[1-9]\d*
IsNumericIdentifier(part) ==
    /\ part # <<>>
    /\ \A k \in 1..Len(part) : part[k] \in Digits
    /\ Len(part) = 1 \/ part[1] # "0"

\* Whether new semver.SemVer(v) accepts v; it throws "Invalid Version" otherwise.
IsValidSemVer(v) ==
    LET parts == SplitOn(v, ".")
    IN  Len(parts) = 3 /\ \A k \in 1..3 : IsNumericIdentifier(parts[k])

\* new semver.SemVer(v) for a valid v
SemVer(v) ==
    LET parts == SplitOn(v, ".")
    IN  [major |-> ToNumber(parts[1]), minor |-> ToNumber(parts[2]),
         patch |-> ToNumber(parts[3])]

\* semver.compare(a, b) < 0
SemVerLess(a, b) ==
    \/ a.major < b.major
    \/ a.major = b.major /\ a.minor < b.minor
    \/ a.major = b.major /\ a.minor = b.minor /\ a.patch < b.patch

\* semver.lt(a, b) and semver.gte(a, b) for valid a and b
semverLt(a, b) == SemVerLess(SemVer(a), SemVer(b))
semverGte(a, b) == ~SemVerLess(SemVer(a), SemVer(b))

(***************************************************************************)
(* configureDotNetCore: image names                                        *)
(***************************************************************************)
LegacyAspNetCoreRuntimeImageFormat == <<"microsoft/aspnetcore:", "{0}", ".", "{1}", "{2}">>
LegacyAspNetCoreSdkImageFormat == <<"microsoft/aspnetcore-build:", "{0}", ".", "{1}", "{2}">>
LegacyDotNetCoreRuntimeImageFormat == <<"microsoft/dotnet:", "{0}", ".", "{1}", "-runtime", "{2}">>
LegacyDotNetCoreSdkImageFormat == <<"microsoft/dotnet:", "{0}", ".", "{1}", "-sdk", "{2}">>
DotNetCoreRuntimeImageFormat == <<"mcr.microsoft.com/dotnet/core/runtime:", "{0}", ".", "{1}", "{2}">>
AspNetCoreRuntimeImageFormat == <<"mcr.microsoft.com/dotnet/core/aspnet:", "{0}", ".", "{1}", "{2}">>
DotNetCoreSdkImageFormat == <<"mcr.microsoft.com/dotnet/core/sdk:", "{0}", ".", "{1}", "{2}">>

\* The hosts: not Windows, or a Windows 10 release (0: before RS3, 1: RS3,
\* 2: RS4, 3: RS5, 4: 19H1 or later).
Hosts == {[isWindows |-> FALSE, release |-> 0]}
         \cup {[isWindows |-> TRUE, release |-> n] : n \in 0..4}

isWindows(host) == host.isWindows
isWindows10RS3OrNewer(host) == host.isWindows /\ host.release >= 1
isWindows10RS4OrNewer(host) == host.isWindows /\ host.release >= 2
isWindows10RS5OrNewer(host) == host.isWindows /\ host.release >= 3
isWindows1019H1OrNewer(host) == host.isWindows /\ host.release >= 4

GetWindowsImageTagMutant(host) ==
    IF isWindows1019H1OrNewer(host) THEN <<"-nanoserver-1903">>
    ELSE IF isWindows10RS5OrNewer(host) THEN <<"-nanoserver-1809">>
    ELSE IF isWindows10RS4OrNewer(host) THEN <<"-nanoserver-1803">>
    ELSE IF isWindows10RS3OrNewer(host) THEN <<"-nanoserver-1709">>
    ELSE <<"-nanoserver-sac2016">>

GetWindowsImageTag(host) ==
    IF ~isWindows(host) \/ isWindows1019H1OrNewer(host) THEN <<"-nanoserver-1903">>
    ELSE IF isWindows10RS5OrNewer(host) THEN <<"-nanoserver-1809">>
    ELSE IF isWindows10RS4OrNewer(host) THEN <<"-nanoserver-1803">>
    ELSE IF isWindows10RS3OrNewer(host) THEN <<"-nanoserver-1709">>
    ELSE <<"-nanoserver-sac2016">>

\* formatVersion, for a version new semver.SemVer accepts
formatVersion(format, version, tagForWindowsVersion) ==
    LET asSemVer == SemVer(version)
    IN  ReplaceFirst(
            ReplaceFirst(
                ReplaceFirst(format, <<"{0}">>, NumberToString(asSemVer.major)),
                <<"{1}">>, NumberToString(asSemVer.minor)),
            <<"{2}">>, tagForWindowsVersion)

(***************************************************************************)
(* path: path.posix and, on a Windows host, path.win32. A path is a string *)
(* whose separators "/" and "\\" and whose drive "C:" are atoms; the paths *)
(* compared by relative are both absolute or both relative.                *)
(***************************************************************************)
Separators(win) == IF win THEN {"/", "\\"} ELSE {"/"}
Sep(win) == IF win THEN "\\" ELSE "/"
Drives == {"C:"}

\* The segments of p between separators, empty ones included.
RECURSIVE Segments(_, _)
Segments(p, win) ==
    LET cuts == {i \in 1..Len(p) : p[i] \in Separators(win)}
        i == CHOOSE c \in cuts : \A d \in cuts : c <= d
    IN  IF cuts = {} THEN <<p>>
        ELSE <<SubSeq(p, 1, i - 1)>> \o Segments(SubSeq(p, i + 1, Len(p)), win)

IsAbsolute(p, win) ==
    /\ p # <<>>
    /\ \/ p[1] \in Separators(win)
       \/ win /\ Len(p) >= 2 /\ p[1] \in Drives /\ p[2] \in Separators(win)

\* normalizeString: "." and empty segments dropped, ".." resolved.
RECURSIVE NormalSegments(_, _, _)
NormalSegments(done, segs, abs) ==
    IF segs = <<>> THEN done
    ELSE LET seg == Head(segs)
             rest == Tail(segs)
         IN  IF seg = <<>> \/ seg = <<".">> THEN NormalSegments(done, rest, abs)
             ELSE IF seg = <<"..">>
             THEN IF done # <<>> /\ done[Len(done)] # <<"..">> /\ ~(done[Len(done)][1] \in Drives)
                  THEN NormalSegments(SubSeq(done, 1, Len(done) - 1), rest, abs)
                  ELSE IF abs THEN NormalSegments(done, rest, abs)
                  ELSE NormalSegments(Append(done, seg), rest, abs)
             ELSE NormalSegments(Append(done, seg), rest, abs)

RECURSIVE JoinSegments(_, _)
JoinSegments(segs, sep) ==
    IF segs = <<>> THEN <<>>
    ELSE IF Len(segs) = 1 THEN segs[1]
    ELSE segs[1] \o <<sep>> \o JoinSegments(Tail(segs), sep)

\* path.normalize(p)
Normalize(p, win) ==
    LET abs == IsAbsolute(p, win)
        segs == NormalSegments(<<>>, Segments(p, win), abs)
        drive == segs # <<>> /\ segs[1][1] \in Drives
        root == IF abs /\ ~drive THEN <<Sep(win)>> ELSE <<>>
        body == JoinSegments(segs, Sep(win))
        tail == IF p # <<>> /\ p[Len(p)] \in Separators(win)
                   /\ (Len(segs) > 1 \/ (segs # <<>> /\ ~drive) \/ (abs /\ drive /\ Len(segs) = 1))
                THEN <<Sep(win)>> ELSE <<>>
    IN  IF p = <<>> \/ (segs = <<>> /\ ~abs) THEN <<".">>
        ELSE root \o body \o tail

\* path.join(a, b): the non-empty arguments joined by the separator, normalized.
PathJoin(a, b, win) ==
    IF a = <<>> /\ b = <<>> THEN <<".">>
    ELSE IF a = <<>> THEN Normalize(b, win)
    ELSE IF b = <<>> THEN Normalize(a, win)
    ELSE Normalize(a \o <<Sep(win)>> \o b, win)

\* path.relative(from, to)
PathRelative(from, to, win) ==
    LET f == NormalSegments(<<>>, Segments(from, win), IsAbsolute(from, win))
        t == NormalSegments(<<>>, Segments(to, win), IsAbsolute(to, win))
        same == {k \in 0..Len(f) : k <= Len(t) /\ SubSeq(f, 1, k) = SubSeq(t, 1, k)}
        k == CHOOSE c \in same : \A d \in same : d <= c
        ups == [i \in 1..(Len(f) - k) |-> <<"..">>]
    IN  JoinSegments(ups \o SubSeq(t, k + 1, Len(t)), Sep(win))

\* p without its trailing separators (a path that is only a separator is kept)
RECURSIVE StripTrailing(_, _)
StripTrailing(p, win) ==
    IF Len(p) > 1 /\ p[Len(p)] \in Separators(win)
    THEN StripTrailing(SubSeq(p, 1, Len(p) - 1), win) ELSE p

LastSeparator(p, win) ==
    LET cuts == {i \in 1..Len(p) : p[i] \in Separators(win)}
    IN  IF cuts = {} THEN 0 ELSE CHOOSE c \in cuts : \A d \in cuts : d <= c

\* path.dirname(p)
PathDirname(p, win) ==
    LET q == StripTrailing(p, win)
        i == LastSeparator(q, win)
    IN  IF q = <<>> \/ i = 0 THEN <<".">>
        ELSE IF i = 1 THEN <<q[1]>>
        ELSE SubSeq(q, 1, i - 1)

\* path.basename(p)
PathBasename(p, win) ==
    LET q == StripTrailing(p, win)
        i == LastSeparator(q, win)
    IN  IF q # <<>> /\ q[1] \in Separators(win) /\ Len(q) = 1 THEN <<>>
        ELSE SubSeq(q, i + 1, Len(q))

\* The extensions a file name of the model may end in (one atom each).
Extensions == {".csproj", ".fsproj"}

\* path.extname(p)
PathExtname(p, win) ==
    LET b == PathBasename(p, win)
    IN  IF Len(b) >= 2 /\ b[Len(b)] \in Extensions THEN <<b[Len(b)]>> ELSE <<>>

\* s.slice(0, -n): for n = 0 this is s.slice(0, 0), the empty string
SliceOffEnd(s, n) == IF n = 0 THEN <<>> ELSE SubSeq(s, 1, Len(s) - n)

(***************************************************************************)
(* configureDotNetCore: the Dockerfile templates, one source line per line *)
(***************************************************************************)
aspNetCoreWindowsTemplate == <<
    "#Depending on the operating system of the host machines(s) that will build or run the containers, the image specified in the FROM statement may need to be changed.", "\n",
    "#For more information, please see https://aka.ms/containercompat", "\n",
    "\n",
    "FROM ", "$", "base_image_name", "$", " AS base", "\n",
    "WORKDIR /app", "\n",
    "$", "expose_statements", "$", "\n",
    "\n",
    "FROM ", "$", "sdk_image_name", "$", " AS build", "\n",
    "WORKDIR /src", "\n",
    "$", "copy_project_commands", "$", "\n",
    "RUN dotnet restore \"", "$", "container_project_directory", "$", "/", "$", "project_file_name", "$", "\"", "\n",
    "COPY . .", "\n",
    "WORKDIR \"/src/", "$", "container_project_directory", "$", "\"", "\n",
    "RUN dotnet build \"", "$", "project_file_name", "$", "\" -c Release -o /app/build", "\n",
    "\n",
    "FROM build AS publish", "\n",
    "RUN dotnet publish \"", "$", "project_file_name", "$", "\" -c Release -o /app/publish", "\n",
    "\n",
    "FROM base AS final", "\n",
    "WORKDIR /app", "\n",
    "COPY --from=publish /app/publish .", "\n",
    "ENTRYPOINT [\"dotnet\", \"", "$", "assembly_name", "$", ".dll\"]", "\n">>

aspNetCoreLinuxTemplate == <<
    "FROM ", "$", "base_image_name", "$", " AS base", "\n",
    "WORKDIR /app", "\n",
    "$", "expose_statements", "$", "\n",
    "\n",
    "FROM ", "$", "sdk_image_name", "$", " AS build", "\n",
    "WORKDIR /src", "\n",
    "$", "copy_project_commands", "$", "\n",
    "RUN dotnet restore \"", "$", "container_project_directory", "$", "/", "$", "project_file_name", "$", "\"", "\n",
    "COPY . .", "\n",
    "WORKDIR \"/src/", "$", "container_project_directory", "$", "\"", "\n",
    "RUN dotnet build \"", "$", "project_file_name", "$", "\" -c Release -o /app/build", "\n",
    "\n",
    "FROM build AS publish", "\n",
    "RUN dotnet publish \"", "$", "project_file_name", "$", "\" -c Release -o /app/publish", "\n",
    "\n",
    "FROM base AS final", "\n",
    "WORKDIR /app", "\n",
    "COPY --from=publish /app/publish .", "\n",
    "ENTRYPOINT [\"dotnet\", \"", "$", "assembly_name", "$", ".dll\"]", "\n">>

dotNetCoreConsoleWindowsTemplate == <<
    "#Depending on the operating system of the host machines(s) that will build or run the containers, the image specified in the FROM statement may need to be changed.", "\n",
    "#For more information, please see https://aka.ms/containercompat", "\n",
    "\n",
    "FROM ", "$", "base_image_name", "$", " AS base", "\n",
    "WORKDIR /app", "\n",
    "$", "expose_statements", "$", "\n",
    "\n",
    "FROM ", "$", "sdk_image_name", "$", " AS build", "\n",
    "WORKDIR /src", "\n",
    "$", "copy_project_commands", "$", "\n",
    "RUN dotnet restore \"", "$", "container_project_directory", "$", "/", "$", "project_file_name", "$", "\"", "\n",
    "COPY . .", "\n",
    "WORKDIR \"/src/", "$", "container_project_directory", "$", "\"", "\n",
    "RUN dotnet build \"", "$", "project_file_name", "$", "\" -c Release -o /app/build", "\n",
    "\n",
    "FROM build AS publish", "\n",
    "RUN dotnet publish \"", "$", "project_file_name", "$", "\" -c Release -o /app/publish", "\n",
    "\n",
    "FROM base AS final", "\n",
    "WORKDIR /app", "\n",
    "COPY --from=publish /app/publish .", "\n",
    "ENTRYPOINT [\"dotnet\", \"", "$", "assembly_name", "$", ".dll\"]", "\n">>

dotNetCoreConsoleLinuxTemplate == <<
    "FROM ", "$", "base_image_name", "$", " AS base", "\n",
    "WORKDIR /app", "\n",
    "$", "expose_statements", "$", "\n",
    "\n",
    "FROM ", "$", "sdk_image_name", "$", " AS build", "\n",
    "WORKDIR /src", "\n",
    "$", "copy_project_commands", "$", "\n",
    "RUN dotnet restore \"", "$", "container_project_directory", "$", "/", "$", "project_file_name", "$", "\"", "\n",
    "COPY . .", "\n",
    "WORKDIR \"/src/", "$", "container_project_directory", "$", "\"", "\n",
    "RUN dotnet build \"", "$", "project_file_name", "$", "\" -c Release -o /app/build", "\n",
    "\n",
    "FROM build AS publish", "\n",
    "RUN dotnet publish \"", "$", "project_file_name", "$", "\" -c Release -o /app/publish", "\n",
    "\n",
    "FROM base AS final", "\n",
    "WORKDIR /app", "\n",
    "COPY --from=publish /app/publish .", "\n",
    "ENTRYPOINT [\"dotnet\", \"", "$", "assembly_name", "$", ".dll\"]", "\n">>

(***************************************************************************)
(* configureDotNetCore: genDockerFile                                      *)
(***************************************************************************)
Token(name) == <<"$", name, "$">>

\* getExposeStatements(ports): one EXPOSE line per port, '' without ports
RECURSIVE ExposeLines(_)
ExposeLines(ports) ==
    IF ports = <<>> THEN <<>>
    ELSE IF Len(ports) = 1 THEN <<"EXPOSE ">> \o NumberToString(ports[1])
    ELSE <<"EXPOSE ">> \o NumberToString(ports[1]) \o <<"\n">> \o ExposeLines(Tail(ports))

\* ports is <<>> for undefined and <<list>> for a list of ports
getExposeStatements(ports) == IF ports = <<>> THEN <<>> ELSE ExposeLines(ports[1])

netcoreapp == <<"n", "e", "t", "c", "o", "r", "e", "a", "p", "p">>
defaultNetCoreVersion == <<"2", ".", "1">>

\* /^netcoreapp([0-9.]+)$/
MatchesNetCoreApp(version) ==
    /\ Len(version) > Len(netcoreapp)
    /\ SubSeq(version, 1, Len(netcoreapp)) = netcoreapp
    /\ \A k \in (Len(netcoreapp) + 1)..Len(version) : version[k] \in Digits \cup {"."}

\* /^[^.]+\.[^.]+$/
IsMajorMinor(v) ==
    LET dots == {k \in 1..Len(v) : v[k] = "."}
    IN  Cardinality(dots) = 1 /\ ~(1 \in dots) /\ ~(Len(v) \in dots)

\* Lines 182-190: the version parsed from TargetFramework, a patch added to a
\* major.minor.
NetCoreAppVersion(version) ==
    LET netCoreAppVersion ==
            extractRegExGroups(SubSeq(version, Len(netcoreapp) + 1, Len(version)),
                               MatchesNetCoreApp(version), defaultNetCoreVersion)
    IN  IF IsMajorMinor(netCoreAppVersion) THEN netCoreAppVersion \o <<".", "0">>
        ELSE netCoreAppVersion

Platforms == {"ASP.NET Core", ".NET Core Console"}

UsesMcrImagesMutant(netCoreAppVersion) == semverGte(netCoreAppVersion, <<"2", ".", "0", ".", "0">>)
\* semver.gte(netCoreAppVersion, '2.1.0')
UsesMcrImages(netCoreAppVersion) == semverGte(netCoreAppVersion, <<"2", ".", "1", ".", "0">>)

\* Lines 192-218, for a platform of Platforms
baseImageFormat(platform, netCoreAppVersion) ==
    IF UsesMcrImages(netCoreAppVersion)
    THEN IF platform = "ASP.NET Core" THEN AspNetCoreRuntimeImageFormat
         ELSE DotNetCoreRuntimeImageFormat
    ELSE IF platform = "ASP.NET Core" THEN LegacyAspNetCoreRuntimeImageFormat
         ELSE LegacyDotNetCoreRuntimeImageFormat

sdkImageNameFormat(platform, netCoreAppVersion) ==
    IF UsesMcrImages(netCoreAppVersion) THEN DotNetCoreSdkImageFormat
    ELSE IF platform = "ASP.NET Core" THEN LegacyAspNetCoreSdkImageFormat
         ELSE LegacyDotNetCoreSdkImageFormat

\* Lines 220-227
tagForWindowsVersion(os, netCoreAppVersion, host) ==
    IF os = "Linux" \/ semverLt(netCoreAppVersion, <<"2", ".", "0", ".", "0">>) THEN <<>>
    ELSE GetWindowsImageTag(host)

\* Lines 232-242, for a platform of Platforms
Template(platform, os) ==
    IF platform = ".NET Core Console"
    THEN IF os = "Linux" THEN dotNetCoreConsoleLinuxTemplate
         ELSE dotNetCoreConsoleWindowsTemplate
    ELSE IF os = "Linux" THEN aspNetCoreLinuxTemplate ELSE aspNetCoreWindowsTemplate

SubstituteMutant(template, v) ==
    ReplaceAll(ReplaceAll(ReplaceAll(ReplaceAll(ReplaceAll(
        ReplaceFirst(template, Token("base_image_name"), v.baseImageName),
        Token("expose_statements"), v.exposeStatements),
        Token("sdk_image_name"), v.sdkImageName),
        Token("container_project_directory"), v.projectDirectory),
        Token("project_file_name"), v.projectFileName),
        Token("assembly_name"), v.assemblyNameNoExtension)

\* Lines 244-250
Substitute(template, v) ==
    ReplaceAll(ReplaceAll(ReplaceAll(ReplaceAll(ReplaceAll(ReplaceAll(
        ReplaceFirst(template, Token("base_image_name"), v.baseImageName),
        Token("expose_statements"), v.exposeStatements),
        Token("sdk_image_name"), v.sdkImageName),
        Token("container_project_directory"), v.projectDirectory),
        Token("project_file_name"), v.projectFileName),
        Token("assembly_name"), v.assemblyNameNoExtension),
        Token("copy_project_commands"), v.copyProjectCommands)

GenError(message) ==
    [kind |-> "error", error |-> message, contents |-> <<>>, netCoreAppVersion |-> <<>>,
     baseImageName |-> <<>>, sdkImageName |-> <<>>, tagForWindowsVersion |-> <<>>,
     projectDirectory |-> <<>>, copyProjectCommands |-> <<>>]

OsIsExpectedMutant(os) == os # "undefined"
\* os !== 'Windows' && os !== 'Linux' is the error case
OsIsExpected(os) == os = "Windows" \/ os = "Linux"

\* genDockerFile; host is the machine the extension runs on.
genDockerFile(serviceNameAndRelativePath, platform, os, ports, version, artifactName, host) ==
    LET win == isWindows(host)
        serviceName == PathBasename(serviceNameAndRelativePath, win)
        projectDirectory == PathDirname(serviceNameAndRelativePath, win)
        projectFileName == PathBasename(artifactName, win)
        copyProjectCommands ==
            <<"COPY [\"">> \o artifactName \o <<"\", \"">> \o projectDirectory \o <<"/", "\"]">>
        netCoreAppVersion == NetCoreAppVersion(version)
        tag == tagForWindowsVersion(os, netCoreAppVersion, host)
        baseImageName == formatVersion(baseImageFormat(platform, netCoreAppVersion),
                                       netCoreAppVersion, tag)
        sdkImageName == formatVersion(sdkImageNameFormat(platform, netCoreAppVersion),
                                      netCoreAppVersion, tag)
        contents == Substitute(Template(platform, os),
                        [baseImageName |-> baseImageName,
                         exposeStatements |-> getExposeStatements(ports),
                         sdkImageName |-> sdkImageName,
                         projectDirectory |-> projectDirectory,
                         projectFileName |-> projectFileName,
                         assemblyNameNoExtension |-> serviceName,
                         copyProjectCommands |-> copyProjectCommands])
        unreplacedToken == extractRegExGroups(UnreplacedTokenMatch(contents),
                                              UnreplacedTokenMatch(contents) # <<>>, <<>>)
    IN  IF ~OsIsExpected(os) THEN GenError("Unexpected OS")
        ELSE IF ~IsValidSemVer(netCoreAppVersion) THEN GenError("Invalid Version")
        ELSE IF platform \notin Platforms THEN GenError("Unknown platform")
        ELSE IF unreplacedToken # <<>> THEN GenError("Unreplaced template token")
        ELSE [kind |-> "ok", error |-> "", contents |-> contents,
              netCoreAppVersion |-> netCoreAppVersion,
              baseImageName |-> baseImageName, sdkImageName |-> sdkImageName,
              tagForWindowsVersion |-> tag, projectDirectory |-> projectDirectory,
              copyProjectCommands |-> copyProjectCommands]

(***************************************************************************)
(* configureDotNetCore: scaffoldNetCore                                    *)
(***************************************************************************)
\* /<TargetFramework>(.+)<\/TargetFramework/: the group of the first match, the
\* group taking as much of the line as it can; <<>> when there is no match.
TargetFrameworkMatch(contents) ==
    LET ends(i) == {j \in (i + 2)..Len(contents) :
                        /\ contents[j] = "</TargetFramework"
                        /\ \A k \in (i + 1)..(j - 1) : contents[k] # "\n"}
        starts == {i \in 1..Len(contents) :
                        contents[i] = "<TargetFramework>" /\ ends(i) # {}}
        i0 == CHOOSE i \in starts : \A j \in starts : i <= j
        j0 == CHOOSE j \in ends(i0) : \A k \in ends(i0) : k <= j
    IN  IF starts = {} THEN <<>> ELSE SubSeq(contents, i0 + 1, j0 - 1)

\* findCSProjOrFSProjFile: the project files found and, when there are several,
\* the one the user picks.
NoProjectFile == <<"No project file">>
findCSProjOrFSProjFile(projectFiles, pick) ==
    IF projectFiles = <<>> THEN NoProjectFile
    ELSE IF Len(projectFiles) > 1 THEN projectFiles[pick]
    ELSE projectFiles[1]

\* s.replace(/\\/g, '/')
BackslashesToSlashes(s) == [i \in 1..Len(s) |-> IF s[i] = "\\" THEN "/" ELSE s[i]]

\* How many times, up to four, unit is repeated in s from position i on
Repeats(s, i, unit) ==
    LET n == Len(unit)
        fits == {k \in 0..4 : /\ i + k * n - 1 <= Len(s)
                              /\ \A j \in 0..(k - 1) :
                                    SubSeq(s, i + j * n, i + (j + 1) * n - 1) = unit}
    IN  CHOOSE k \in fits : \A l \in fits : l <= k

\* s.replace(/(unit){3,4}/g, unit unit): each match is the leftmost run of three
\* repeats, taken with a fourth when there is one.
RECURSIVE CollapseRuns(_, _)
CollapseRuns(s, unit) ==
    LET hits == {i \in 1..Len(s) : Repeats(s, i, unit) >= 3}
        i == CHOOSE h \in hits : \A g \in hits : h <= g
    IN  IF hits = {} THEN s
        ELSE SubSeq(s, 1, i - 1) \o unit \o unit
             \o CollapseRuns(SubSeq(s, i + Repeats(s, i, unit) * Len(unit), Len(s)), unit)

CollapseEmptyLinesMutant(contents) == contents
\* Lines 340-342
CollapseEmptyLines(contents) ==
    CollapseRuns(CollapseRuns(contents, <<"\r", "\n">>), <<"\n">>)

\* genCommonDockerIgnoreFile(platform)
genCommonDockerIgnoreFile(platform) == <<"dockerignore for ", platform>>

\* getSubfolderDepth(rootFolder, file): the number of separators of the
\* relative path of the file
getSubfolderDepth(file, win) ==
    Cardinality({i \in 1..Len(Normalize(file, win)) : Normalize(file, win)[i] \in Separators(win)})

NoGen == [kind |-> "not called"]

ScaffoldError(message, telemetry, gen) ==
    [kind |-> "error", error |-> message, files |-> <<>>, telemetry |-> telemetry,
     gen |-> gen, args |-> <<>>]

\* context.outputFolder ?? other
OutputFolderOr(context, other) ==
    IF context.outputFolder = <<>> THEN other ELSE context.outputFolder[1]

\* if (context.outputFolder): an empty string counts as none
HasOutputFolder(context) == context.outputFolder # <<>> /\ context.outputFolder[1] # <<>>

\* scaffoldNetCore(context)
scaffoldNetCore(context) ==
    LET win == isWindows(context.host)
        os == IF context.os # <<>> THEN context.os[1] ELSE context.promptedOs
        ports == IF context.ports # <<>> THEN context.ports
                 ELSE IF context.platform = "ASP.NET Core" THEN <<context.promptedPorts>>
                 ELSE <<>>
        rootRelativeProjectFileName ==
            findCSProjOrFSProjFile(context.projectFiles, context.pick)
        rootRelativeProjectDirectory == PathDirname(rootRelativeProjectFileName, win)
        projectFilePath == PathJoin(context.rootFolder, rootRelativeProjectFileName, FALSE)
        workspaceRelativeProjectFileName ==
            PathRelative(context.folderFsPath, projectFilePath, FALSE)
        rootRelative ==
            SliceOffEnd(rootRelativeProjectFileName,
                        Len(PathExtname(rootRelativeProjectFileName, win)))
        telemetry ==
            [configureOs |-> os,
             packageFileType |-> PathExtname(rootRelativeProjectFileName, win),
             packageFileSubfolderDepth |-> getSubfolderDepth(rootRelativeProjectFileName, win)]
        version == extractRegExGroups(TargetFrameworkMatch(context.projFileContents),
                                      TargetFrameworkMatch(context.projFileContents) # <<>>,
                                      <<>>)
        serviceNameAndPathRelative ==
            BackslashesToSlashes(
                IF HasOutputFolder(context)
                THEN PathRelative(context.outputFolder[1],
                                  PathJoin(context.rootFolder, rootRelative, win), win)
                ELSE rootRelative)
        args == [serviceNameAndRelativePath |-> serviceNameAndPathRelative,
                 platform |-> context.platform, os |-> os, ports |-> ports,
                 version |-> version, artifactName |-> workspaceRelativeProjectFileName]
        gen == genDockerFile(serviceNameAndPathRelative, context.platform, os, ports,
                             version, workspaceRelativeProjectFileName, context.host)
        dockerFileName ==
            PathJoin(OutputFolderOr(context, rootRelativeProjectDirectory), <<"Dockerfile">>, win)
        dockerIgnoreFileName ==
            PathJoin(OutputFolderOr(context, <<>>), <<".dockerignore">>, win)
        files == <<[fileName |-> dockerFileName,
                    contents |-> CollapseEmptyLines(gen.contents), open |-> TRUE],
                   [fileName |-> dockerIgnoreFileName,
                    contents |-> genCommonDockerIgnoreFile(context.platform)]>>
    IN  IF rootRelativeProjectFileName = NoProjectFile
        THEN ScaffoldError("No .csproj or .fsproj file could be found",
                           [configureOs |-> os], NoGen)
        ELSE IF gen.kind = "error"
        THEN [ScaffoldError(gen.error, telemetry, gen) EXCEPT !.args = args]
        ELSE IF context.initializeForDebugging /\ context.debugInitFails
        THEN [ScaffoldError("initializeForDebugging failed", telemetry, gen)
                EXCEPT !.args = args]
        ELSE [kind |-> "files", error |-> "", files |-> files, telemetry |-> telemetry,
              gen |-> gen, args |-> args]

(***************************************************************************)
(* The calls of scaffoldNetCore that are explored (NetCoreSpec)            *)
(***************************************************************************)
\* The longest version, in dot-separated parts, of a TargetFramework.
MaxVersionParts == 2

VersionParts == {<<>>, <<"0">>, <<"1">>, <<"2">>, <<"1", "0">>, <<"0", "1">>, <<"x">>}

VersionTails ==
    {JoinSegments(ps, ".") : ps \in UNION {[1..n -> VersionParts] : n \in 1..MaxVersionParts}}

\* The TargetFramework elements of the project file: none (<<>>) or one.
TargetFrameworks ==
    {<<>>} \cup {<<prefix \o tail>> : prefix \in {<<>>, netcoreapp, <<"n", "e", "t">>},
                                      tail \in VersionTails}

ProjFileContents(targetFramework) ==
    <<"<Project Sdk=\"Microsoft.NET.Sdk\">", "\n", "<PropertyGroup>", "\n">>
    \o (IF targetFramework = <<>> THEN <<>>
        ELSE <<"<TargetFramework>">> \o targetFramework[1] \o <<"</TargetFramework", ">", "\n">>)
    \o <<"</PropertyGroup>", "\n", "</Project>", "\n">>

\* The workspace folder on a host
WorkspaceFolder(host) == IF isWindows(host) THEN <<"C:", "\\", "w">> ELSE <<"/", "w">>

\* context.os and, when it is undefined (<<>>), what promptForOS resolves to
OsChoices == {<<<<"Windows">>, "Linux">>, <<<<"Linux">>, "Linux">>, <<<<"Mac">>, "Linux">>,
              <<<<>>, "Windows">>, <<<<>>, "undefined">>}

BaseContext(host) ==
    [host |-> host, os |-> <<"Linux">>, promptedOs |-> "Linux",
     platform |-> "ASP.NET Core", ports |-> <<>>, promptedPorts |-> <<80, 443>>,
     rootFolder |-> WorkspaceFolder(host), folderFsPath |-> WorkspaceFolder(host),
     outputFolder |-> <<>>, projectFiles |-> <<<<"app", ".csproj">>>>, pick |-> 1,
     projFileContents |-> ProjFileContents(<<netcoreapp \o <<"2", ".", "1">>>>),
     initializeForDebugging |-> FALSE, debugInitFails |-> FALSE]

\* Calls that differ in the TargetFramework, for each platform and OS
VersionContexts ==
    {[BaseContext(host) EXCEPT !.os = <<os>>, !.platform = platform,
                               !.projFileContents = ProjFileContents(tf)] :
        host \in {h \in Hosts : h.release = 2}, os \in {"Windows", "Linux"},
        platform \in Platforms \cup {"Node.js"}, tf \in TargetFrameworks}

\* Calls that differ in the host and the OS, for each platform and a few
\* TargetFrameworks
HostContexts ==
    {[BaseContext(host) EXCEPT !.os = os[1], !.promptedOs = os[2], !.platform = platform,
                               !.projFileContents = ProjFileContents(tf)] :
        host \in Hosts, os \in OsChoices, platform \in Platforms \cup {"Node.js"},
        tf \in {<<>>, <<netcoreapp \o <<"1", ".", "1">>>>, <<netcoreapp \o <<"2", ".", "0">>>>,
                <<netcoreapp \o <<"3", ".", "1">>>>, <<netcoreapp \o <<"3">>>>,
                <<netcoreapp \o <<"2", ".", "1", ".", "0">>>>,
                <<netcoreapp \o <<"2", ".", "0", ".", "9">>>>}}

ProjectFileLists ==
    {<<>>,
     <<<<"app", ".csproj">>>>,
     <<<<"src", "/", "web", ".fsproj">>>>,
     <<<<"app", ".csproj">>, <<"src", "/", "app", "/", "web", ".csproj">>>>}

OutputFolders(host) ==
    {<<>>, <<WorkspaceFolder(host)>>,
     <<WorkspaceFolder(host) \o <<Sep(isWindows(host)), "out">>>>,
     <<WorkspaceFolder(host) \o <<Sep(isWindows(host)), "src">>>>}

PortChoices == {<<>>, <<<<>>>>, <<<<80>>>>, <<<<5000, 5001>>>>}

\* Calls that differ in the project files, the output folder and the ports
PathContexts ==
    {[BaseContext(host) EXCEPT !.os = <<os>>, !.platform = platform, !.ports = ports,
                               !.outputFolder = outputFolder,
                               !.projectFiles = projectFiles, !.pick = pick,
                               !.initializeForDebugging = debug[1],
                               !.debugInitFails = debug[2]] :
        host \in {h \in Hosts : h.release \in {0, 4}}, os \in {"Windows", "Linux"},
        platform \in Platforms, ports \in PortChoices,
        outputFolder \in UNION {OutputFolders(h) : h \in Hosts},
        projectFiles \in ProjectFileLists, pick \in 1..2,
        debug \in {<<FALSE, FALSE>>, <<TRUE, FALSE>>, <<TRUE, TRUE>>}}

\* Project files whose names hold dollar signs
DollarProjectFiles ==
    {<<"$", "x", "$", ".csproj">>, <<"$", "&", ".csproj">>, <<"x", "$", "$", ".csproj">>,
     <<"$", "$", "x", "$", "$", ".csproj">>,
     <<"src", "/", "$", "x", "/", "x", "$", ".csproj">>}

\* Calls on project files whose names hold dollar signs
DollarContexts ==
    {[BaseContext(host) EXCEPT !.os = <<os>>, !.platform = platform,
                               !.projectFiles = <<file>>] :
        host \in {h \in Hosts : h.release = 0}, os \in {"Windows", "Linux"},
        platform \in Platforms, file \in DollarProjectFiles}

Contexts ==
    {c \in VersionContexts \cup HostContexts \cup PathContexts \cup DollarContexts :
        /\ c.pick <= Len(c.projectFiles) \/ (c.pick = 1 /\ c.projectFiles = <<>>)
        /\ c.outputFolder \in OutputFolders(c.host)}

\* A call of scaffoldNetCore
ScaffoldNetCore(context) ==
    /\ call = NoCall
    /\ call' = context
    /\ result' = scaffoldNetCore(context)
    /\ UNCHANGED <<installed, run, treeCall, lint>>

NetCoreNext == \E context \in Contexts : ScaffoldNetCore(context)

NetCoreSpec == Init /\ [][NetCoreNext]_vars

(***************************************************************************)
(* dockerExtension: activate and the diagnostics of the documents          *)
(* (LintSpec). A document is named by its uri.                             *)
(***************************************************************************)
Docs == 1..MaxDocs

\* scheduleValidate(document): the validation of the document is scheduled;
\* its outcome, problems or none, becomes the document's entry of
\* diagnosticCollection.
scheduleValidate(l, d, problems) ==
    [l EXCEPT !.scheduled[d] = @ + 1,
              !.diagnostics = IF problems THEN @ \cup {d} ELSE @ \ {d}]

\* Line 78: (e) => scheduleValidate(e.document)
OnDidChangeTextDocument(l, d, problems) == scheduleValidate(l, d, problems)

\* Line 81: (doc) => scheduleValidate(doc)
OnDidOpenTextDocument(l, d, problems) == scheduleValidate(l, d, problems)

OnDidCloseTextDocumentMutant(l, d) == l
\* Line 82: (doc) => diagnosticCollection.delete(doc.uri)
OnDidCloseTextDocument(l, d) == [l EXCEPT !.diagnostics = @ \ {d}]

\* Line 80: vscode.workspace.textDocuments.forEach((doc) => scheduleValidate(doc))
RECURSIVE ForEachTextDocument(_, _, _)
ForEachTextDocument(l, docs, withProblems) ==
    IF docs = {} THEN l
    ELSE LET d == CHOOSE x \in docs : \A y \in docs : x <= y
         IN  ForEachTextDocument(scheduleValidate(l, d, d \in withProblems),
                                 docs \ {d}, withProblems)

\* Lines 74-82 of activate: the collection is created empty, the handlers are
\* registered and the open documents are validated.
activate(l, withProblems) ==
    ForEachTextDocument([l EXCEPT !.activated = TRUE, !.openAtActivation = l.open,
                                  !.diagnostics = {}],
                        l.open, withProblems)

\* What the host does at an event: it keeps its list of open documents and,
\* once activate has registered the handlers, notifies them.
HostEvent(kind, d) ==
    [lint EXCEPT !.events = @ + 1,
                 !.open = IF kind = "open" THEN @ \cup {d}
                          ELSE IF kind = "close" THEN @ \ {d} ELSE @,
                 !.notified[d] = IF lint.activated /\ kind \in {"open", "change"}
                                 THEN @ + 1 ELSE @,
                 !.last = [kind |-> kind, doc |-> d,
                           entryBefore |-> d \in lint.diagnostics]]

\* The extension is activated.
Activate(withProblems) ==
    /\ ~lint.activated
    /\ withProblems \subseteq lint.open
    /\ lint' = activate([lint EXCEPT !.last = [kind |-> "activate", doc |-> 0,
                                                entryBefore |-> FALSE]],
                        withProblems)
    /\ UNCHANGED <<installed, run, treeCall, call, result>>

\* A document is opened.
DocumentOpens(d, problems) ==
    /\ lint.events < MaxEvents
    /\ d \notin lint.open
    /\ lint' = IF lint.activated THEN OnDidOpenTextDocument(HostEvent("open", d), d, problems)
               ELSE HostEvent("open", d)
    /\ UNCHANGED <<installed, run, treeCall, call, result>>

\* An open document is changed.
DocumentChanges(d, problems) ==
    /\ lint.events < MaxEvents
    /\ d \in lint.open
    /\ lint' = IF lint.activated
               THEN OnDidChangeTextDocument(HostEvent("change", d), d, problems)
               ELSE HostEvent("change", d)
    /\ UNCHANGED <<installed, run, treeCall, call, result>>

\* An open document is closed.
DocumentCloses(d) ==
    /\ lint.events < MaxEvents
    /\ d \in lint.open
    /\ lint' = IF lint.activated THEN OnDidCloseTextDocument(HostEvent("close", d), d)
               ELSE HostEvent("close", d)
    /\ UNCHANGED <<installed, run, treeCall, call, result>>

LintNext ==
    \/ \E withProblems \in SUBSET Docs : Activate(withProblems)
    \/ \E d \in Docs, problems \in BOOLEAN : DocumentOpens(d, problems)
    \/ \E d \in Docs, problems \in BOOLEAN : DocumentChanges(d, problems)
    \/ \E d \in Docs : DocumentCloses(d)

LintSpec == Init /\ [][LintNext]_vars

(***************************************************************************)
(* Properties of scaffoldNetCore and genDockerFile (NetCoreSpec)           *)
(***************************************************************************)
\* A call of scaffoldNetCore has been made and it called genDockerFile.
GenCalled == result.kind # "none" /\ result.gen.kind # "not called"

\* genDockerFile returned contents.
GenReturned == result.kind # "none" /\ result.gen.kind = "ok"

\* s ends with t
EndsWith(s, t) == Len(s) >= Len(t) /\ SubSeq(s, Len(s) - Len(t) + 1, Len(s)) = t

\* major.minor of a version
MajorMinor(v) == NumberToString(v.major) \o <<".">> \o NumberToString(v.minor)

NanoserverTags == {"-nanoserver-1903", "-nanoserver-1809", "-nanoserver-1803",
                   "-nanoserver-1709", "-nanoserver-sac2016"}

\* C3: for a version of at least 2.1.0 the SDK image is
\* mcr.microsoft.com/dotnet/core/sdk and the base image
\* mcr.microsoft.com/dotnet/core/aspnet (ASP.NET Core) or
\* mcr.microsoft.com/dotnet/core/runtime (.NET Core Console); below 2.1.0 the
\* images are microsoft/aspnetcore and microsoft/aspnetcore-build, or
\* microsoft/dotnet:<v>-runtime and microsoft/dotnet:<v>-sdk; the tag always
\* starts with major.minor of the version, and the images are the ones the
\* FROM lines of the Dockerfile name.
C3_ImageSelection ==
    GenReturned =>
        LET gen == result.gen
            v == SemVer(gen.netCoreAppVersion)
            mm == MajorMinor(v)
            tag == gen.tagForWindowsVersion
            atLeast21 == v.major > 2 \/ (v.major = 2 /\ v.minor >= 1)
            asp == result.args.platform = "ASP.NET Core"
            console == result.args.platform = ".NET Core Console"
        IN  /\ asp \/ console
            /\ atLeast21 =>
                /\ gen.sdkImageName = <<"mcr.microsoft.com/dotnet/core/sdk:">> \o mm \o tag
                /\ asp => gen.baseImageName =
                            <<"mcr.microsoft.com/dotnet/core/aspnet:">> \o mm \o tag
                /\ console => gen.baseImageName =
                            <<"mcr.microsoft.com/dotnet/core/runtime:">> \o mm \o tag
            /\ ~atLeast21 =>
                /\ asp => /\ gen.baseImageName = <<"microsoft/aspnetcore:">> \o mm \o tag
                          /\ gen.sdkImageName = <<"microsoft/aspnetcore-build:">> \o mm \o tag
                /\ console =>
                          /\ gen.baseImageName =
                                <<"microsoft/dotnet:">> \o mm \o <<"-runtime">> \o tag
                          /\ gen.sdkImageName =
                                <<"microsoft/dotnet:">> \o mm \o <<"-sdk">> \o tag
            /\ IndexOf(gen.contents, <<"FROM ">> \o gen.baseImageName \o <<" AS base">>) # 0
            /\ IndexOf(gen.contents, <<"FROM ">> \o gen.sdkImageName \o <<" AS build">>) # 0

\* A console project of .NET Core 1.1 got the Docker Hub runtime image.
C3_Witness ==
    /\ GenReturned
    /\ result.args.platform = ".NET Core Console"
    /\ result.gen.baseImageName = <<"microsoft/dotnet:", "1", ".", "1", "-runtime">>

\* C4: the suffix of the base and of the SDK image is empty when the target OS
\* is Linux or the version is below 2.0.0; otherwise it is -nanoserver-1903 on a
\* host that is not Windows or is 19H1 or newer, else -nanoserver-1809 from RS5,
\* -nanoserver-1803 from RS4, -nanoserver-1709 from RS3, else
\* -nanoserver-sac2016; both images carry the same suffix.
C4_TagSuffix ==
    GenReturned =>
        LET gen == result.gen
            v == SemVer(gen.netCoreAppVersion)
            host == call.host
            suffix ==
                IF result.args.os = "Linux" \/ v.major < 2 THEN <<>>
                ELSE IF ~host.isWindows \/ host.release >= 4 THEN <<"-nanoserver-1903">>
                ELSE IF host.release = 3 THEN <<"-nanoserver-1809">>
                ELSE IF host.release = 2 THEN <<"-nanoserver-1803">>
                ELSE IF host.release = 1 THEN <<"-nanoserver-1709">>
                ELSE <<"-nanoserver-sac2016">>
            tagged(image) ==
                /\ EndsWith(image, suffix)
                /\ \A i \in 1..(Len(image) - Len(suffix)) : image[i] \notin NanoserverTags
        IN  /\ gen.tagForWindowsVersion = suffix
            /\ tagged(gen.baseImageName)
            /\ tagged(gen.sdkImageName)

\* A Windows image of .NET Core 2.0 or later was generated on an RS4 host.
C4_Witness ==
    /\ GenReturned
    /\ result.args.os = "Windows"
    /\ call.host = [isWindows |-> TRUE, release |-> 2]
    /\ EndsWith(result.gen.baseImageName, <<"-nanoserver-1803">>)
    /\ EndsWith(result.gen.sdkImageName, <<"-nanoserver-1803">>)

TokenNames == {"base_image_name", "expose_statements", "sdk_image_name",
               "container_project_directory", "project_file_name", "assembly_name",
               "copy_project_commands"}

\* C5: contents that genDockerFile returns hold no $[a-z_]+$ token, none of the
\* seven template tokens in particular; generation fails on an unreplaced token
\* only when a value substituted into the template holds a dollar sign, and
\* then neither contents nor files are returned.
C5_NoUnreplacedToken ==
    /\ GenReturned =>
        /\ UnreplacedTokenMatch(result.gen.contents) = <<>>
        /\ \A name \in TokenNames : IndexOf(result.gen.contents, <<"$", name, "$">>) = 0
        /\ \A i \in 1..Len(result.gen.contents) : result.gen.contents[i] \notin TokenNames
    /\ (GenCalled /\ result.gen.error = "Unreplaced template token") =>
        /\ \E i \in 1..Len(result.args.artifactName) : result.args.artifactName[i] = "$"
        /\ result.gen.contents = <<>>
        /\ result.kind = "error" /\ result.files = <<>>

\* Contents were returned that hold a dollar sign of the project file's name.
C5_Witness ==
    /\ GenReturned
    /\ \E i \in 1..Len(result.gen.contents) : result.gen.contents[i] = "$"

\* C6: a successful scaffoldNetCore returns two files: first the Dockerfile,
\* marked open, in the output folder when one is given and else in the
\* directory of the project file, then .dockerignore in the output folder when
\* one is given and else at the root; with an output folder the project paths
\* of the Dockerfile (the source and the target of its COPY) are relative to
\* the output folder and use / separators.
C6_ScaffoldFiles ==
    result.kind = "files" =>
        LET win == call.host.isWindows
            file == IF Len(call.projectFiles) > 1 THEN call.projectFiles[call.pick]
                    ELSE call.projectFiles[1]
            given == call.outputFolder # <<>>
            out == call.outputFolder[1]
            fromOut == BackslashesToSlashes(
                           PathRelative(out, PathJoin(call.rootFolder, file, win), win))
        IN  /\ Len(result.files) = 2
            /\ result.files[1].open = TRUE
            /\ result.files[1].fileName =
                    PathJoin(IF given THEN out ELSE PathDirname(file, win),
                             <<"Dockerfile">>, win)
            /\ result.files[2].fileName =
                    PathJoin(IF given THEN out ELSE <<>>, <<".dockerignore">>, win)
            /\ given =>
                /\ result.gen.copyProjectCommands =
                        <<"COPY [\"">> \o fromOut \o <<"\", \"">>
                        \o PathDirname(fromOut, FALSE) \o <<"/", "\"]">>
                /\ \A i \in 1..Len(result.gen.copyProjectCommands) :
                        result.gen.copyProjectCommands[i] # "\\"

\* C9: genDockerFile returns contents only for the OS Windows or Linux and the
\* platform ASP.NET Core or .NET Core Console; any other OS gives the error
\* Unexpected OS whatever the other arguments are, any other platform gives an
\* error, and after an error there are no contents and scaffoldNetCore returns
\* no files.
C9_UnexpectedOsOrPlatform ==
    GenCalled =>
        LET gen == result.gen
            osKnown == result.args.os \in {"Windows", "Linux"}
            platformKnown == result.args.platform \in {"ASP.NET Core", ".NET Core Console"}
        IN  /\ ~osKnown => gen.kind = "error" /\ gen.error = "Unexpected OS"
            /\ ~platformKnown => gen.kind = "error"
            /\ gen.kind = "ok" => osKnown /\ platformKnown
            /\ gen.kind = "error" =>
                    gen.contents = <<>> /\ result.kind = "error" /\ result.files = <<>>

\* The OS was given as Mac, the platform was unknown and the TargetFramework
\* had no valid version: the error is Unexpected OS.
C9_Witness ==
    /\ GenCalled
    /\ result.args.os = "Mac"
    /\ result.args.platform = "Node.js"
    /\ result.args.version = netcoreapp \o <<"3">>
    /\ result.gen.error = "Unexpected OS"
    /\ result.files = <<>>

\* C10: for every TargetFramework genDockerFile compares a valid three-part
\* version: netcoreapp<major>.<minor> gives <major>.<minor>.0, and a value that
\* is not netcoreapp<digits and dots>, a missing one included, gives 2.1.0 and
\* the MCR 2.1 images.
C10_ValidVersionCompared ==
    (GenCalled /\ result.args.os \in {"Windows", "Linux"}) =>
        LET tf == result.args.version
            tail == SubSeq(tf, Len(netcoreapp) + 1, Len(tf))
            matches == /\ Len(tf) > Len(netcoreapp)
                       /\ SubSeq(tf, 1, Len(netcoreapp)) = netcoreapp
                       /\ \A i \in 1..Len(tail) : tail[i] \in Digits \cup {"."}
            dots == {i \in 1..Len(tail) : tail[i] = "."}
            majorMinor == Cardinality(dots) = 1 /\ 1 \notin dots /\ Len(tail) \notin dots
        IN  /\ result.gen.error # "Invalid Version"
            /\ (result.gen.kind = "ok" /\ matches /\ majorMinor) =>
                result.gen.netCoreAppVersion = tail \o <<".", "0">>
            /\ (result.gen.kind = "ok" /\ ~matches) =>
                /\ result.gen.netCoreAppVersion = <<"2", ".", "1", ".", "0">>
                /\ result.gen.sdkImageName[1] = "mcr.microsoft.com/dotnet/core/sdk:"
                /\ SubSeq(result.gen.sdkImageName, 2, 4) = <<"2", ".", "1">>

\* s holds n line breaks in a row, of "\n" or of "\r\n".
HasLineBreakRun(s, n) ==
    \/ \E i \in 1..(Len(s) - n + 1) : \A k \in 0..(n - 1) : s[i + k] = "\n"
    \/ \E i \in 1..(Len(s) - 2 * n + 1) :
            \A k \in 0..(n - 1) : s[i + 2 * k] = "\r" /\ s[i + 2 * k + 1] = "\n"

\* C11: the Dockerfile that scaffoldNetCore returns holds no run of three or
\* more line breaks, also when $expose_statements$ was replaced by the empty
\* string, and the collapsing changed nothing but such runs.
C11_NoMultipleEmptyLines ==
    result.kind = "files" =>
        LET before == result.gen.contents
            after == result.files[1].contents
        IN  /\ ~HasLineBreakRun(after, 3)
            /\ SelectSeq(after, LAMBDA a : a # "\n") = SelectSeq(before, LAMBDA a : a # "\n")
            /\ ~HasLineBreakRun(before, 3) => after = before

\* A Dockerfile was returned whose text had three line breaks in a row before
\* the collapsing, the ports being an empty list or undefined.
C11_Witness ==
    /\ result.kind = "files"
    /\ result.args.ports \in {<<>>, <<<<>>>>}
    /\ HasLineBreakRun(result.gen.contents, 3)
    /\ ~HasLineBreakRun(result.files[1].contents, 3)

C1_PollTerminates ==
    /\ \A r \in Runs : (run[r].pc = "delay") ~> (run[r].pc = "done")
    /\ [](\A r \in Runs : run[r].lateChecks >= 1 => run[r].pc = "done")

\* A run has ended by timeout without ever seeing the extension.
C1_Witness ==
    \E r \in Runs : run[r].pc = "done" /\ run[r].timedout /\ ~run[r].observed

\* C2 as stated: no installation check is made after the timer has fired, so a
\* run makes at most maxTimeout / delay checks.
C2_NoCheckAfterTimeout ==
    \A r \in Runs : run[r].lateChecks = 0 /\ run[r].checks <= PollsPerTimeout

\* C2 as amended: one check follows each delay; at most maxTimeout / delay
\* checks are made before the timer fires and at most one after it.
C2_AtMostOneLateCheck ==
    \A r \in Runs :
        /\ run[r].lateChecks <= 1
        /\ run[r].checks - run[r].lateChecks <= PollsPerTimeout
        /\ run[r].checks <= PollsPerTimeout + 1

\* A run has checked after its timer fired, having made every check before it.
C2_Witness ==
    \E r \in Runs : run[r].lateChecks = 1 /\ run[r].checks = PollsPerTimeout + 1

\* C7: a run refreshes the node at most once and only after one of its checks
\* saw the extension installed; a run that timed out without seeing it does not.
C7_RefreshOnlyWhenInstalled ==
    \A r \in Runs :
        /\ run[r].refreshes <= 1
        /\ run[r].refreshes = 1 => run[r].observed /\ run[r].pc = "done"
        /\ (run[r].pc = "done" /\ ~run[r].observed) => run[r].refreshes = 0

\* A run has refreshed the node after the timer fired and the last check saw
\* the extension.
C7_Witness ==
    \E r \in Runs : run[r].refreshes = 1 /\ run[r].timedout /\ run[r].observed

\* C8: loadMoreChildrenImpl starts the poll exactly when the parent returned one
\* item whose commandId is 'extension.open'; it returns the parent's items, and
\* at its return the poll it started is still waiting and has not refreshed.
C8_LoadMoreChildren ==
    treeCall.calls > 0 =>
        /\ treeCall.returned = treeCall.parentItems
        /\ treeCall.started # 0 <=>
                treeCall.parentItems \in {<<"extension.open">>}
        /\ treeCall.started # 0 =>
                treeCall.pcAtReturn = "delay" /\ treeCall.refreshesAtReturn = 0

\* The poll started by the last call has since refreshed the node.
C8_Witness ==
    /\ treeCall.started # 0
    /\ run[treeCall.started].pc = "done"
    /\ run[treeCall.started].refreshes = 1

====
